---- MODULE Spec2Model ----
(***************************************************************************)
(* The two views of the todo exercise as one state machine.                *)
(*                                                                         *)
(*   TodoList   (src/src/components/todo-list.component.tsx)               *)
(*   TodoDetail (src/src/components/todo-detail.component.tsx)             *)
(*                                                                         *)
(* A behaviour follows one mounted component instance: `component` says    *)
(* which of the two views the hosting shell shows.  Every action is one    *)
(* synchronous run of code between two suspension points (an effect, an    *)
(* event handler, the continuation after an await); the state updates of   *)
(* one such run are committed together, as React batches them.             *)
(***************************************************************************)
EXTENDS Integers, Sequences, FiniteSets, TLC

\* ---------------------------------------------------------------- bounds
\* Largest collection the remote service answers GET /todos with.
MaxTodos == 3
\* Identifiers the shell may pass to the detail view are 1..MaxId.
MaxId == 2
\* Requests one mounted detail view issues (the mount and the id changes).
MaxRequests == 2
\* Item activations followed in one mounted list view.
MaxSelects == 2

\* ------------------------------------------------------- the remote service
\* HTTP statuses the service answers with.
Statuses == {200, 404}

\* Response.ok: the status is in the range 200..299.
Ok(status) == status >= 200 /\ status <= 299

\* The value null of a `string | null` state cell.
NULL == "null"

\* Error.message of the TypeError a failed fetch() rejects with.
NetworkMessage == "Failed to fetch"

\* Error.message of the SyntaxError response.json() rejects with.
ParseMessage == "Unexpected token < in JSON"

\* Truthiness of a `string | null` value, as `if (error)` tests it.
TruthyString(s) == s # NULL /\ s # ""

TitleOf(id) == "todo " \o ToString(id)

\* One element of the array GET /todos answers with.
TodoItem(id, completed) ==
  [id |-> id, userId |-> 1, title |-> TitleOf(id), completed |-> completed]

Items == {TodoItem(i, c) : i \in 1..MaxTodos, c \in BOOLEAN}

\* The arrays GET /todos may answer with: ids are unique, any order.
Collections ==
  UNION {{s \in [1..n -> Items] :
            \A i, j \in 1..n : i # j => s[i].id # s[j].id} : n \in 0..MaxTodos}

\* Bodies of GET /todos/{id}: the JSON value null, the object {} and a record.
JsonNull == [kind |-> "null", id |-> 0, userId |-> 0, title |-> "", completed |-> FALSE]

EmptyObject == [kind |-> "empty", id |-> 0, userId |-> 0, title |-> "", completed |-> FALSE]

TodoRecord(id) ==
  [kind |-> "todo", id |-> id, userId |-> 1, title |-> TitleOf(id),
   completed |-> (id % 2 = 0)]

DetailBodies(id) == {JsonNull, EmptyObject, TodoRecord(id)}

\* Truthiness of a `Todo | null` value, as `if (!todo)` tests it.
TruthyTodo(t) == t.kind # "null"

\* --------------------------------------------------------------- the state
VARIABLES
  component,      \* "list" or "detail": the view the shell shows
  \* TodoList
  listMounted,    \* the first render and its effect have run
  todos,          \* useState<Todo[]>([])
  listLoading,    \* useState<boolean>(true)
  listError,      \* useState<string | null>(null)
  filteredTodos,  \* useState<Todo[]>([])
  filter,         \* useState<'All' | 'Open' | 'Completed'>('All')
  listReq,        \* the fetchTodos call: where it is suspended, how it ended
  listFetches,    \* number of fetch() calls the list view has made
  onSelectCalls,  \* the arguments of the calls of the onSelectTodo prop, in order
  \* TodoDetail
  detailMounted,  \* the first render and its effect have run
  todoId,         \* the todoId prop (0 before the mount)
  todo,           \* useState<Todo | null>(null)
  detailLoading,  \* useState<boolean>(true)
  detailError,    \* useState<string | null>(null)
  inflight,       \* the fetchTodo calls that are suspended at an await
  issued,         \* number of fetch() calls the detail view has made
  current         \* how the request issued for the current todoId ended

listVars == <<listMounted, todos, listLoading, listError, filteredTodos, filter,
              listReq, listFetches, onSelectCalls>>

detailVars == <<detailMounted, todoId, todo, detailLoading, detailError,
                inflight, issued, current>>

vars == <<component, listVars, detailVars>>

Pending == [end |-> "pending", status |-> 0, body |-> JsonNull]

Init ==
  /\ component \in {"list", "detail"}
  /\ listMounted = FALSE
  /\ todos = <<>>
  /\ listLoading = TRUE
  /\ listError = NULL
  /\ filteredTodos = <<>>
  /\ filter = "All"
  /\ listReq = [pc |-> "idle", status |-> 0, end |-> "none"]
  /\ listFetches = 0
  /\ onSelectCalls = <<>>
  /\ detailMounted = FALSE
  /\ todoId = 0
  /\ todo = JsonNull
  /\ detailLoading = TRUE
  /\ detailError = NULL
  /\ inflight = {}
  /\ issued = 0
  /\ current = Pending

\* ------------------------------------------------------------ TodoList view
\* `HTTP error! Status: ${response.status}`
ListHttpMessage(status) == "HTTP error! Status: " \o ToString(status)

\* Array.prototype.filter with the predicate t.completed = keep.
RECURSIVE ArrayFilter(_, _)
ArrayFilter(arr, keep) ==
  IF arr = <<>> THEN <<>>
  ELSE (IF Head(arr).completed = keep THEN <<Head(arr)>> ELSE <<>>)
         \o ArrayFilter(Tail(arr), keep)

\* What the component returns.
ListView ==
  IF ~listMounted THEN "none"
  ELSE IF listLoading THEN "loading"
  ELSE IF TruthyString(listError) THEN "error"
  ELSE "list"

\* The data-testids of the filter buttons in the rendering.
ListControls ==
  IF ListView = "list" THEN {"filter-all", "filter-open", "filter-completed"} ELSE {}

\* The filter button whose className is 'active'.
ActiveControls ==
  {c \in ListControls :
     \/ c = "filter-all" /\ filter = "All"
     \/ c = "filter-open" /\ filter = "Open"
     \/ c = "filter-completed" /\ filter = "Completed"}

\* The ids of the <li> items in the rendering, in order.
ListItems ==
  IF ListView = "list"
    THEN [i \in 1..Len(filteredTodos) |-> filteredTodos[i].id]
    ELSE <<>>

\* ListShowsNoTodos that tests todos.length in place of filteredTodos.length.
ListShowsNoTodos_OnTodos == ListView = "list" /\ Len(todos) = 0

\* The rendering holds <p>No todos found</p>.
ListShowsNoTodos == ListView = "list" /\ Len(filteredTodos) = 0

\* The promise fetchTodos returned: the catch block handles every rejection and
\* throws nothing, so the call ends fulfilled.
FetchTodosPromise ==
  IF listReq.pc = "idle" THEN "none"
  ELSE IF listReq.pc = "done" THEN "fulfilled"
  ELSE "pending"

\* The first render, then the mount effect: fetchTodos runs to its first await.
ListMount ==
  /\ component = "list"
  /\ ~listMounted
  /\ listMounted' = TRUE
  /\ listLoading' = TRUE
  /\ listReq' = [pc |-> "fetch", status |-> 0, end |-> "none"]
  /\ listFetches' = listFetches + 1
  /\ UNCHANGED <<component, onSelectCalls, todos, listError, filteredTodos, filter,
                 detailVars>>

\* ListFetchResolve with the `if (!response.ok)` branch left out.
ListFetchResolve_IgnoreStatus(status) ==
  /\ listReq.pc = "fetch"
  /\ listReq' = [listReq EXCEPT !.pc = "json", !.status = status]
  /\ UNCHANGED <<component, onSelectCalls, listMounted, todos, listLoading, listError,
                 filteredTodos, filter, listFetches, detailVars>>

\* fetch() resolves with a response; fetchTodos runs to `await response.json()`.
ListFetchResolve(status) ==
  /\ listReq.pc = "fetch"
  /\ listError' = IF ~Ok(status) THEN ListHttpMessage(status) ELSE listError
  /\ listReq' = [listReq EXCEPT !.pc = "json", !.status = status]
  /\ UNCHANGED <<component, onSelectCalls, listMounted, todos, listLoading,
                 filteredTodos, filter, listFetches, detailVars>>

\* fetch() rejects: the catch block, then the finally block.
ListFetchReject ==
  /\ listReq.pc = "fetch"
  /\ listError' = NetworkMessage
  /\ listLoading' = FALSE
  /\ listReq' = [listReq EXCEPT !.pc = "done", !.end = "network"]
  /\ UNCHANGED <<component, onSelectCalls, listMounted, todos, filteredTodos, filter,
                 listFetches, detailVars>>

\* ListJsonResolve with the call setFilteredTodos(data) left out.
ListJsonResolve_OnlyTodos(data) ==
  /\ listReq.pc = "json"
  /\ todos' = data
  /\ listLoading' = FALSE
  /\ listReq' = [listReq EXCEPT !.pc = "done", !.end = "body"]
  /\ UNCHANGED <<component, onSelectCalls, listMounted, listError, filteredTodos,
                 filter, listFetches, detailVars>>

\* response.json() resolves with data: both setters, then the finally block.
ListJsonResolve(data) ==
  /\ listReq.pc = "json"
  /\ todos' = data
  /\ filteredTodos' = data
  /\ listLoading' = FALSE
  /\ listReq' = [listReq EXCEPT !.pc = "done", !.end = "body"]
  /\ UNCHANGED <<component, onSelectCalls, listMounted, listError, filter,
                 listFetches, detailVars>>

\* ListJsonReject without the catch block: the finally block alone runs.
ListJsonReject_Uncaught ==
  /\ listReq.pc = "json"
  /\ listLoading' = FALSE
  /\ listReq' = [listReq EXCEPT !.pc = "done", !.end = "parse"]
  /\ UNCHANGED <<component, onSelectCalls, listMounted, todos, listError,
                 filteredTodos, filter, listFetches, detailVars>>

\* response.json() rejects: the catch block, then the finally block.
ListJsonReject ==
  /\ listReq.pc = "json"
  /\ listError' = ParseMessage
  /\ listLoading' = FALSE
  /\ listReq' = [listReq EXCEPT !.pc = "done", !.end = "parse"]
  /\ UNCHANGED <<component, onSelectCalls, listMounted, todos, filteredTodos, filter,
                 listFetches, detailVars>>

\* FilterResult with the two predicates exchanged.
FilterResult_Swapped(newFilter, ts) ==
  IF newFilter = "All" THEN ts
  ELSE IF newFilter = "Open" THEN ArrayFilter(ts, TRUE)
  ELSE ArrayFilter(ts, FALSE)

\* The argument handleFilter passes to setFilteredTodos.
FilterResult(newFilter, ts) ==
  IF newFilter = "All" THEN ts
  ELSE IF newFilter = "Open" THEN ArrayFilter(ts, FALSE)
  ELSE ArrayFilter(ts, TRUE)

\* HandleFilter that fetches the collection again instead of filtering locally.
HandleFilter_Refetch(newFilter) ==
  /\ ListView = "list"
  /\ filter' = newFilter
  /\ listLoading' = TRUE
  /\ listReq' = [pc |-> "fetch", status |-> 0, end |-> "none"]
  /\ listFetches' = listFetches + 1
  /\ UNCHANGED <<component, onSelectCalls, listMounted, todos, listError,
                 filteredTodos, detailVars>>

\* HandleFilter without the call setFilter(newFilter).
HandleFilter_KeepFilter(newFilter) ==
  /\ ListView = "list"
  /\ filteredTodos' = FilterResult(newFilter, todos)
  /\ UNCHANGED <<component, onSelectCalls, listMounted, todos, listLoading,
                 listError, filter, listReq, listFetches, detailVars>>

\* HandleFilter that filters the displayed subset instead of the collection.
HandleFilter_FromFiltered(newFilter) ==
  /\ ListView = "list"
  /\ filter' = newFilter
  /\ filteredTodos' = FilterResult(newFilter, filteredTodos)
  /\ UNCHANGED <<component, onSelectCalls, listMounted, todos, listLoading,
                 listError, listReq, listFetches, detailVars>>

\* A click on a filter button; the buttons exist only in the list rendering.
HandleFilter(newFilter) ==
  /\ ListView = "list"
  /\ filter' = newFilter
  /\ filteredTodos' = FilterResult(newFilter, todos)
  /\ UNCHANGED <<component, onSelectCalls, listMounted, todos, listLoading, listError,
                 listReq, listFetches, detailVars>>

\* SelectTodo with a button for every stored todo, not only the filtered ones.
SelectTodo_AnyStored(id) ==
  /\ ListView = "list"
  /\ \E i \in 1..Len(todos) : todos[i].id = id
  /\ Len(onSelectCalls) < MaxSelects
  /\ onSelectCalls' = Append(onSelectCalls, id)
  /\ UNCHANGED <<component, listMounted, todos, listLoading, listError, filteredTodos,
                 filter, listReq, listFetches, detailVars>>

\* A click on the button of a rendered item: onSelectTodo(todo.id).
SelectTodo(id) ==
  /\ \E i \in 1..Len(ListItems) : ListItems[i] = id
  /\ Len(onSelectCalls) < MaxSelects
  /\ onSelectCalls' = Append(onSelectCalls, id)
  /\ UNCHANGED <<component, listMounted, todos, listLoading, listError, filteredTodos,
                 filter, listReq, listFetches, detailVars>>

\* ---------------------------------------------------------- TodoDetail view
\* `HTTP ${response.status}`
DetailHttpMessage(status) == "HTTP " \o ToString(status)

\* What the component returns.
DetailView ==
  IF ~detailMounted THEN "none"
  ELSE IF detailLoading THEN "loading"
  ELSE IF TruthyString(detailError) THEN "error"
  ELSE IF ~TruthyTodo(todo) THEN "notfound"
  ELSE "record"

\* The four paragraphs of the record rendering.
DetailFields ==
  <<todo.id, todo.title, todo.userId, IF todo.completed THEN "Completed" ELSE "">>

\* The promise the fetchTodo call for the current identifier returned: the
\* catch block handles every rejection and throws nothing.
FetchTodoPromise ==
  IF ~detailMounted THEN "none"
  ELSE IF current.end = "pending" THEN "pending"
  ELSE "fulfilled"

\* The effect body: fetchTodo runs to `await fetch(...)`.
IssueFetchTodo(id) ==
  /\ detailLoading' = TRUE
  /\ issued' = issued + 1
  /\ inflight' = inflight \cup {[seq |-> issued + 1, id |-> id, pc |-> "fetch", status |-> 0]}
  /\ current' = Pending

\* The first render with the prop, then the effect.
DetailMount(id) ==
  /\ component = "detail"
  /\ ~detailMounted
  /\ detailMounted' = TRUE
  /\ todoId' = id
  /\ IssueFetchTodo(id)
  /\ UNCHANGED <<component, listVars, todo, detailError>>

\* The parent passes another todoId: re-render, then the effect runs again.
ChangeId(id) ==
  /\ detailMounted
  /\ id # todoId
  /\ issued < MaxRequests
  /\ todoId' = id
  /\ IssueFetchTodo(id)
  /\ UNCHANGED <<component, listVars, detailMounted, todo, detailError>>

\* The request r is the one issued for the current identifier.
IsCurrent(r) == r.seq = issued

\* DetailFetchResolve with the `if (!response.ok)` branch left out.
DetailFetchResolve_IgnoreStatus(r, status) ==
  /\ r \in inflight
  /\ r.pc = "fetch"
  /\ inflight' = (inflight \ {r}) \cup {[r EXCEPT !.pc = "json", !.status = status]}
  /\ UNCHANGED <<component, listVars, detailMounted, todoId, todo, detailLoading,
                 detailError, issued, current>>

\* fetch() of request r resolves; fetchTodo runs to `await response.json()`.
DetailFetchResolve(r, status) ==
  /\ r \in inflight
  /\ r.pc = "fetch"
  /\ detailError' = IF ~Ok(status) THEN DetailHttpMessage(status) ELSE detailError
  /\ inflight' = (inflight \ {r}) \cup {[r EXCEPT !.pc = "json", !.status = status]}
  /\ UNCHANGED <<component, listVars, detailMounted, todoId, todo, detailLoading,
                 issued, current>>

\* DetailFetchReject with the finally block left out.
DetailFetchReject_NoFinally(r) ==
  /\ r \in inflight
  /\ r.pc = "fetch"
  /\ detailError' = NetworkMessage
  /\ inflight' = inflight \ {r}
  /\ current' = IF IsCurrent(r)
                  THEN [end |-> "network", status |-> 0, body |-> JsonNull]
                  ELSE current
  /\ UNCHANGED <<component, listVars, detailMounted, todoId, todo, detailLoading,
                 issued>>

\* fetch() of request r rejects: the catch block, then the finally block.
DetailFetchReject(r) ==
  /\ r \in inflight
  /\ r.pc = "fetch"
  /\ detailError' = NetworkMessage
  /\ detailLoading' = FALSE
  /\ inflight' = inflight \ {r}
  /\ current' = IF IsCurrent(r)
                  THEN [end |-> "network", status |-> 0, body |-> JsonNull]
                  ELSE current
  /\ UNCHANGED <<component, listVars, detailMounted, todoId, todo, issued>>

\* response.json() of request r resolves: setTodo, then the finally block.
DetailJsonResolve(r, data) ==
  /\ r \in inflight
  /\ r.pc = "json"
  /\ todo' = data
  /\ detailLoading' = FALSE
  /\ inflight' = inflight \ {r}
  /\ current' = IF IsCurrent(r)
                  THEN [end |-> "body", status |-> r.status, body |-> data]
                  ELSE current
  /\ UNCHANGED <<component, listVars, detailMounted, todoId, detailError, issued>>

\* response.json() of request r rejects: the catch block, then the finally block.
DetailJsonReject(r) ==
  /\ r \in inflight
  /\ r.pc = "json"
  /\ detailError' = ParseMessage
  /\ detailLoading' = FALSE
  /\ inflight' = inflight \ {r}
  /\ current' = IF IsCurrent(r)
                  THEN [end |-> "parse", status |-> r.status, body |-> JsonNull]
                  ELSE current
  /\ UNCHANGED <<component, listVars, detailMounted, todoId, todo, issued>>

\* ------------------------------------------------------- the specification
Next ==
  \/ ListMount
  \/ \E status \in Statuses : ListFetchResolve(status)
  \/ ListFetchReject
  \/ \E data \in Collections : ListJsonResolve(data)
  \/ ListJsonReject
  \/ \E newFilter \in {"All", "Open", "Completed"} : HandleFilter(newFilter)
  \/ \E id \in 1..MaxTodos : SelectTodo(id)
  \/ \E id \in 1..MaxId : DetailMount(id)
  \/ \E id \in 1..MaxId : ChangeId(id)
  \/ \E r \in inflight, status \in Statuses : DetailFetchResolve(r, status)
  \/ \E r \in inflight : DetailFetchReject(r)
  \/ \E r \in inflight : \E data \in DetailBodies(r.id) : DetailJsonResolve(r, data)
  \/ \E r \in inflight : DetailJsonReject(r)

Spec == Init /\ [][Next]_vars

\* Every issued request settles: the event loop runs each continuation once its
\* promise is resolved or rejected.
Settle ==
  \/ \E status \in Statuses : ListFetchResolve(status)
  \/ ListFetchReject
  \/ \E data \in Collections : ListJsonResolve(data)
  \/ ListJsonReject
  \/ \E r \in inflight, status \in Statuses : DetailFetchResolve(r, status)
  \/ \E r \in inflight : DetailFetchReject(r)
  \/ \E r \in inflight : \E data \in DetailBodies(r.id) : DetailJsonResolve(r, data)
  \/ \E r \in inflight : DetailJsonReject(r)

FairSpec == Spec /\ WF_vars(Settle)

\* ------------------------------------------------------------- properties
\* The request issued for the current identifier has not settled.
CurrentOutstanding == \E r \in inflight : IsCurrent(r)

\* The request issued for the current identifier returned the record of that id.
CurrentReturnedRecord ==
  /\ current.end = "body"
  /\ Ok(current.status)
  /\ current.body = TodoRecord(todoId)

\* The fields the record rendering shows for record t.
FieldsOf(t) == <<t.id, t.title, t.userId, IF t.completed THEN "Completed" ELSE "">>

\* C1: in the detail view, once every issued request has settled, the rendered
\* record is the one returned for the last identifier, whatever the order in
\* which the responses arrived.  Stated for the runs in which the last request
\* returned a record and no request stored an error, so that only the arrival
\* order decides it.
C1_LastIdentifierWins ==
  (/\ detailMounted
   /\ inflight = {}
   /\ CurrentReturnedRecord
   /\ detailError = NULL)
  => (DetailView = "record" /\ DetailFields = FieldsOf(TodoRecord(todoId)))

\* Item t belongs to the subset of filter mode m.
Matches(t, m) ==
  \/ m = "All"
  \/ m = "Open" /\ t.completed = FALSE
  \/ m = "Completed" /\ t.completed = TRUE

\* The subset of collection c under filter mode m.
DerivedSubset(c, m) == SelectSeq(c, LAMBDA t : Matches(t, m))

\* C2: in every state of the list view the filtered subset is the current
\* filter mode applied to the stored collection, and the step that stores a
\* fetched collection leaves both equal to it with the mode All.
C2_FilteredIsDerived ==
  /\ [](filteredTodos = DerivedSubset(todos, filter))
  /\ [][\A data \in Collections :
          ListJsonResolve(data) =>
            (todos' = data /\ filteredTodos' = data /\ filter' = "All")]_vars

C2_Witness ==
  /\ ListView = "list"
  /\ filter = "Open"
  /\ Len(todos) = 3
  /\ Len(filteredTodos) = 1

\* The place of item t in collection c (ids are unique in c).
PlaceIn(c, t) == CHOOSE k \in 1..Len(c) : c[k] = t

\* sub holds exactly the items of c that match m, once each, in c's order.
ExactlyMatching(sub, c, m) ==
  /\ \A i \in 1..Len(sub) : Matches(sub[i], m) /\ \E k \in 1..Len(c) : c[k] = sub[i]
  /\ \A k \in 1..Len(c) : Matches(c[k], m) => \E i \in 1..Len(sub) : sub[i] = c[k]
  /\ Len(sub) = Cardinality({k \in 1..Len(c) : Matches(c[k], m)})
  /\ \A i, j \in 1..Len(sub) : i < j => PlaceIn(c, sub[i]) < PlaceIn(c, sub[j])
  /\ (m = "All" => sub = c)

\* C3: activating filter mode M shows exactly the items of the fetched
\* collection that match M, in the collection's order, none duplicated or
\* dropped; All shows the collection itself.
C3_FilterSelectsMatching ==
  [][\A m \in {"All", "Open", "Completed"} :
       HandleFilter(m) =>
         (/\ todos' = todos
          /\ ExactlyMatching(filteredTodos', todos, m)
          /\ ListItems' = [i \in 1..Len(filteredTodos') |-> filteredTodos'[i].id])]_vars

C3_Witness ==
  /\ ListView = "list"
  /\ filter = "Completed"
  /\ Len(todos) = 3
  /\ Len(filteredTodos) = 2
  /\ filteredTodos[1].id > filteredTodos[2].id

\* C4: in both views the loading indicator is rendered in exactly the states
\* where the request for the current collection (list) or the current
\* identifier (detail) is outstanding.
C4_LoadingIffOutstanding ==
  /\ listMounted => (ListView = "loading" <=> listReq.pc \in {"fetch", "json"})
  /\ detailMounted => (DetailView = "loading" <=> CurrentOutstanding)

\* C5: in the detail view, while the request for the current identifier is
\* outstanding the view shows the loading indicator; in particular it does not
\* show the record fetched for a previous identifier.
C5_NoStaleRecordWhileLoading ==
  (detailMounted /\ CurrentOutstanding)
  => ~(DetailView = "record" /\ todo.kind = "todo" /\ todo.id # todoId)

\* C6: in the detail view, the step in which the request for the current
\* identifier settles successfully with a usable record leaves the view
\* rendering that record's four fields, whatever earlier requests did.
C6_CurrentSuccessRendersRecord ==
  [][\A r \in inflight :
       (/\ IsCurrent(r)
        /\ Ok(r.status)
        /\ DetailJsonResolve(r, TodoRecord(r.id)))
       => (/\ DetailView' = "record"
           /\ DetailFields' = FieldsOf(TodoRecord(todoId)))]_vars

\* C7: a mounted list view has issued exactly one request, and no filter
\* selection issues another.
C7_OneRequestPerMount ==
  /\ ~listMounted => listFetches = 0
  /\ listMounted => listFetches = 1

C7_Witness ==
  /\ ListView = "list"
  /\ filter = "Completed"
  /\ filteredTodos # todos
  /\ listFetches = 1

\* The list fetch settled as a failure: fetch() rejected, or the response
\* carried a non-success status.
ListFetchFailed ==
  /\ listReq.pc = "done"
  /\ \/ listReq.end = "network"
     \/ listReq.end \in {"body", "parse"} /\ ~Ok(listReq.status)

\* C8: after the list fetch failed by network error or non-success status, an
\* error message is stored, loading is cleared and the error indicator is
\* rendered; no item and no filter control is rendered.
C8_ListFailureRendersError ==
  ListFetchFailed
  => (/\ TruthyString(listError)
      /\ listLoading = FALSE
      /\ ListView = "error"
      /\ ListItems = <<>>
      /\ ListControls = {})

C8_Witness ==
  /\ listReq.pc = "done"
  /\ listReq.end = "body"
  /\ listReq.status = 404
  /\ Len(filteredTodos) = 2
  /\ ListView = "error"

\* The request for the current identifier settled as a failure: fetch()
\* rejected, or the response carried a non-success status.
CurrentFailed ==
  \/ current.end = "network"
  \/ current.end \in {"body", "parse"} /\ ~Ok(current.status)

\* C9: after the detail request for the current identifier failed by network
\* error or non-success status, the view renders the error indicator and no
\* record fields.
C9_DetailFailureRendersError ==
  (detailMounted /\ CurrentFailed)
  => (DetailView = "error" /\ DetailView # "record")

C9_Witness ==
  /\ detailMounted
  /\ current.end = "body"
  /\ current.status = 404
  /\ todo = TodoRecord(todoId)
  /\ inflight = {}
  /\ DetailView = "error"

\* Every request the mounted view issued has settled.
AllSettled ==
  \/ listMounted /\ listReq.pc = "done"
  \/ detailMounted /\ inflight = {}

NotLoading == ListView # "loading" /\ DetailView # "loading"

\* C10: when every issued request eventually settles, a mounted view
\* eventually leaves the loading state; it is out of it whenever every issued
\* request has settled, and stays out of it until a new request is issued.
C10_LoadingEnds ==
  /\ (listMounted ~> (listReq.pc = "done" /\ ListView # "loading"))
  /\ (detailMounted ~> (inflight = {} /\ DetailView # "loading"))
  /\ [](AllSettled => NotLoading)
  /\ [][(NotLoading /\ listFetches' = listFetches /\ issued' = issued)
          => NotLoading']_vars

C10_Witness ==
  /\ detailMounted
  /\ issued = 2
  /\ inflight = {}
  /\ current.end = "network"
  /\ detailLoading = FALSE

\* The request for the current identifier settled successfully with a body
\* that holds no record: the JSON value null or the empty object.
CurrentReturnedNoRecord ==
  /\ current.end = "body"
  /\ Ok(current.status)
  /\ current.body \in {JsonNull, EmptyObject}

\* C11: in the detail view, after the request for the current identifier
\* settled successfully with no usable record (an empty or null body), the
\* view renders the not-found indication, not record fields and not the error
\* indicator.
C11_NoRecordRendersNotFound ==
  (detailMounted /\ CurrentReturnedNoRecord) => DetailView = "notfound"

\* The list view's own state.
ListOwnState == <<todos, filteredTodos, filter, listLoading, listError>>

\* C12: activating a rendered item calls onSelectTodo exactly once, with that
\* item's id; the item belongs to the current filtered subset of a rendered
\* list, and the list view's own state is unchanged.
C12_SelectCallsBackOnce ==
  [][\A id \in 1..MaxTodos :
       SelectTodo(id) =>
         (/\ onSelectCalls' = onSelectCalls \o <<id>>
          /\ ListView = "list"
          /\ \E i \in 1..Len(filteredTodos) : filteredTodos[i].id = id
          /\ ListOwnState' = ListOwnState)]_vars

C12_Witness ==
  /\ filter = "Open"
  /\ Len(todos) = 3
  /\ Len(filteredTodos) = 2
  /\ onSelectCalls = <<filteredTodos[2].id>>

\* The list fetch settled successfully: a success status and a parsed body.
ListFetchSucceeded ==
  /\ listReq.pc = "done"
  /\ listReq.end = "body"
  /\ Ok(listReq.status)

\* C13: once the list fetch has succeeded, "No todos found" is rendered if and
\* only if no item of the collection belongs to the current filter mode, an
\* empty fetched collection included.
C13_NoTodosIffSubsetEmpty ==
  ListFetchSucceeded
  => (/\ ListView = "list"
      /\ ListShowsNoTodos <=> (\A i \in 1..Len(todos) : ~Matches(todos[i], filter))
      /\ ListShowsNoTodos <=> (ListItems = <<>>))

C13_Witness ==
  /\ ListFetchSucceeded
  /\ Len(todos) = 2
  /\ filter = "Completed"
  /\ ListShowsNoTodos

\* The filter button of mode m.
ControlOf(m) ==
  IF m = "All" THEN "filter-all"
  ELSE IF m = "Open" THEN "filter-open"
  ELSE "filter-completed"

FilterStep == \E m \in {"All", "Open", "Completed"} : HandleFilter(m)

\* C14: whenever the filter controls are rendered exactly one of them is
\* active; it is the control of the most recently selected mode (All when none
\* was selected yet), and the displayed subset is the one of that mode.
C14_OneActiveControl ==
  /\ [](ListControls # {} =>
          \E m \in {"All", "Open", "Completed"} :
            /\ ActiveControls = {ControlOf(m)}
            /\ Cardinality(ActiveControls) = 1
            /\ filteredTodos = DerivedSubset(todos, m))
  /\ [][\A m \in {"All", "Open", "Completed"} :
          HandleFilter(m) => ActiveControls' = {ControlOf(m)}]_vars
  /\ [][(~FilterStep /\ ListControls' # {}) =>
          ActiveControls' =
            (IF ListControls # {} THEN ActiveControls ELSE {"filter-all"})]_vars

C14_Witness ==
  /\ ActiveControls = {"filter-completed"}
  /\ Len(todos) = 3
  /\ Len(filteredTodos) = 1
  /\ Len(onSelectCalls) = 1

C16_NeverLoadingWithError ==
  /\ ~(listLoading /\ TruthyString(listError))
  /\ ~(detailLoading /\ TruthyString(detailError))

\* C17: after the list fetch failed by network error or non-success status the
\* stored collection and the filtered subset are still the empty collection.
C17_FailureStoresNothing ==
  ListFetchFailed => (todos = <<>> /\ filteredTodos = <<>>)

\* C18: a filter selection leaves the collection, the loading flag and the
\* error message unchanged, and the displayed subset it leaves depends only on
\* the collection and the selected mode: All shows the whole collection
\* whatever was selected before, and selecting the active mode again changes
\* nothing.
C18_SelectionDependsOnLastMode ==
  [][\A m \in {"All", "Open", "Completed"} :
       HandleFilter(m) =>
         (/\ <<todos', listLoading', listError'>> = <<todos, listLoading, listError>>
          /\ filteredTodos' = DerivedSubset(todos, m)
          /\ (m = "All" => ListItems' = [i \in 1..Len(todos) |-> todos[i].id])
          /\ (m = filter => filteredTodos' = filteredTodos))]_vars

C18_Witness ==
  /\ ListView = "list"
  /\ filter = "Open"
  /\ Len(todos) = 2
  /\ Len(filteredTodos) = 1
  /\ listError = NULL

====
